---- MODULE Spec2Model ----
(***************************************************************************)
(* Model of the PsychoPy log parser (src/parsing/parse_psychopy.py) and of *)
(* the batch driver (src/parsing/batch_parse_psychopy.py).                 *)
(*                                                                         *)
(* Timestamps are whole seconds (the code holds floats; every comparison   *)
(* and subtraction the code makes is kept, rounding is not modelled).      *)
(* A log message is modelled by what the code asks of it:                  *)
(*   msg.marks    the set of <<stimulus, value>> pairs whose text          *)
(*                "<stimulus>: autoDraw = <value>" is a substring of it,   *)
(*   msg.keydown  whether the Keydown pattern of line 63 matches it,       *)
(*   msg.key      group(1) of that match.                                  *)
(* A Python None is the empty tuple, a present value v is <<v>>.           *)
(* The file system is taken to be reliable: the output directory can be    *)
(* created and a CSV that can be opened is written completely.             *)
(***************************************************************************)
EXTENDS Integers, Sequences, FiniteSets, TLC

VARIABLES
    scanned,      \* extract_periods: the events the loop has consumed
    stim_name,    \* extract_periods: its stim_name argument
    on,           \* extract_periods: local `on`
    periods,      \* extract_periods: local `periods`
    log_file,     \* parse_time_interval_log: the log behind log_path
    parsed,       \* parse_time_interval_log: its outcome (None before the call)
    input_dir,    \* batch_parse_logs: the logs under input_dir, by path
    csv_files,    \* the CSV files of output_dir, by file name
    csv_before,   \* the CSV files as they were when batch_parse_logs was called
    overwrite,    \* batch_parse_logs: argument
    dry_run,      \* batch_parse_logs: argument
    pc,           \* batch_parse_logs: position
    log_paths,    \* batch_parse_logs: local `log_paths`
    done,         \* batch_parse_logs: number of log_paths the loop has handled
    results       \* batch_parse_logs: local `results`

scanVars  == <<scanned, stim_name, on, periods>>
parseVars == <<log_file, parsed>>
batchVars == <<input_dir, csv_files, csv_before, overwrite, dry_run, pc,
               log_paths, done, results>>
vars      == <<scanVars, parseVars, batchVars>>

----------------------------------------------------------------------------
(* Bounds of the model.                                                    *)

MaxT == 2
MaxLen == 4
MaxPeriods == 2
MaxKeys == 2

(* The grace period added to the response offset, in seconds.             *)
Grace == 1

----------------------------------------------------------------------------
(* Values.                                                                 *)

None == <<>>
Some(v) == <<v>>

Times == 0..MaxT

NoMsg == [marks |-> {}, keydown |-> FALSE, key |-> ""]
DrawMsg(stim, vals) ==
    [marks |-> {<<stim, v>> : v \in vals}, keydown |-> FALSE, key |-> ""]
KeyMsg(label) == [marks |-> {}, keydown |-> TRUE, key |-> label]
Event(t, etype, msg) == [t |-> t, etype |-> etype, msg |-> msg]

SeqsUpTo(S, n) == UNION {[1..k -> S] : k \in 0..n}

RECURSIVE Flatten(_)
Flatten(ss) == IF ss = <<>> THEN <<>> ELSE Head(ss) \o Flatten(Tail(ss))

----------------------------------------------------------------------------
(* parse_psychopy.py                                                       *)

(* f"{stim}: autoDraw = {val}" in msg                                      *)
Contains(msg, stim, val) == <<stim, val>> \in msg.marks

(* os.path.basename(log_path).                                             *)
BaseName(path) == path.root \o path.tail

(* Variant of extract_experiment_datetime that returns empty metadata      *)
(* instead of raising when the pattern does not match.                     *)
extract_datetime_lenient(path) ==
    IF path.stamp = None
    THEN [raised |-> FALSE, experiment_date |-> "", experiment_time |-> ""]
    ELSE LET g == path.stamp[1]
         IN [raised |-> FALSE,
             experiment_date |-> g[1],
             experiment_time |-> g[2] \o ":" \o g[3] \o ":" \o g[4] \o "." \o g[5]]

(* extract_experiment_datetime: the regular expression is searched in the  *)
(* base name; path.stamp is None when it does not match, else its groups.  *)
extract_experiment_datetime(path) ==
    IF path.stamp = None
    THEN [raised |-> TRUE, experiment_date |-> "", experiment_time |-> ""]
    ELSE LET g == path.stamp[1]
         IN [raised |-> FALSE,
             experiment_date |-> g[1],
             experiment_time |-> g[2] \o ":" \o g[3] \o ":" \o g[4] \o "." \o g[5]]

(* Variants of the loop body with one slip each: a "true" restarts an open *)
(* period; the period is emitted offset first; `on` is not reset.          *)
PeriodStepRestart(st, e, stim) ==
    IF Contains(e.msg, stim, "true")
    THEN [on |-> Some(e.t), periods |-> st.periods]
    ELSE IF Contains(e.msg, stim, "null") /\ st.on # None
         THEN [on |-> None, periods |-> Append(st.periods, <<st.on[1], e.t>>)]
         ELSE st

PeriodStepSwapped(st, e, stim) ==
    IF Contains(e.msg, stim, "true") /\ st.on = None
    THEN [on |-> Some(e.t), periods |-> st.periods]
    ELSE IF Contains(e.msg, stim, "null") /\ st.on # None
         THEN [on |-> None, periods |-> Append(st.periods, <<e.t, st.on[1]>>)]
         ELSE st

PeriodStepNoReset(st, e, stim) ==
    IF Contains(e.msg, stim, "true") /\ st.on = None
    THEN [on |-> Some(e.t), periods |-> st.periods]
    ELSE IF Contains(e.msg, stim, "null") /\ st.on # None
         THEN [on |-> st.on, periods |-> Append(st.periods, <<st.on[1], e.t>>)]
         ELSE st

(* The body of extract_periods' loop for one event.                        *)
PeriodStep(st, e, stim) ==
    IF Contains(e.msg, stim, "true") /\ st.on = None
    THEN [on |-> Some(e.t), periods |-> st.periods]
    ELSE IF Contains(e.msg, stim, "null") /\ st.on # None
         THEN [on |-> None, periods |-> Append(st.periods, <<st.on[1], e.t>>)]
         ELSE st

RECURSIVE ScanPrefix(_, _, _)
ScanPrefix(events, stim, k) ==
    IF k = 0
    THEN [on |-> None, periods |-> <<>>]
    ELSE PeriodStep(ScanPrefix(events, stim, k - 1), events[k], stim)

extract_periods(events, stim) == ScanPrefix(events, stim, Len(events)).periods

(* Lines 60-65: the (t, key) pairs of the DATA events that match Keydown.  *)
IsKeyEvent(e) == e.etype = "DATA" /\ e.msg.keydown

key_events_of(events) ==
    LET ks == SelectSeq(events, IsKeyEvent)
    IN [i \in 1..Len(ks) |-> <<ks[i].t, ks[i].msg.key>>]

(* Variants of the condition of line 82: the upper bound exclusive; no     *)
(* lower bound.                                                            *)
AdmissibleStrict(k, resp_on, resp_off) ==
    /\ k[2] \in {"1", "2"}
    /\ resp_on <= k[1]
    /\ k[1] < resp_off + Grace

AdmissibleNoLower(k, resp_on, resp_off) ==
    /\ k[2] \in {"1", "2"}
    /\ k[1] <= resp_off + Grace

(* Line 82: the condition of the scan for the response.                    *)
Admissible(k, resp_on, resp_off) ==
    /\ k[2] \in {"1", "2"}
    /\ resp_on <= k[1]
    /\ k[1] <= resp_off + Grace

(* Lines 81-85: the index of the key event the loop breaks on, 0 if the    *)
(* loop runs to its end.                                                   *)
find_choice(key_events, resp_on, resp_off) ==
    LET hits == {i \in 1..Len(key_events) :
                    Admissible(key_events[i], resp_on, resp_off)}
    IN IF hits = {} THEN 0
       ELSE CHOOSE i \in hits : \A j \in hits : i <= j

(* Variant of line 86 testing the truth of choice_time, not `is not None`: *)
(* a choice at time 0 gets no reaction time.                               *)
choice_rt_truthy(choice_time, resp_on) ==
    IF choice_time # None /\ choice_time[1] # 0
    THEN Some(choice_time[1] - resp_on)
    ELSE None

(* Line 86.                                                                *)
choice_rt_of(choice_time, resp_on) ==
    IF choice_time # None THEN Some(choice_time[1] - resp_on) ELSE None

(* Lines 71-101: the trial of one aligned triple of periods.               *)
build_trial(metadata, first, second, response, key_events) ==
    LET stim1_dur == first[2] - first[1]
        stim2_dur == second[2] - second[1]
        c == find_choice(key_events, response[1], response[2])
        choice_key == IF c = 0 THEN None ELSE Some(key_events[c][2])
        choice_time == IF c = 0 THEN None ELSE Some(key_events[c][1])
    IN [experiment_date |-> metadata.experiment_date,
        experiment_time |-> metadata.experiment_time,
        stim1_onset |-> first[1],
        stim1_offset |-> first[2],
        stim2_onset |-> second[1],
        stim2_offset |-> second[2],
        stim1_duration |-> stim1_dur,
        stim2_duration |-> stim2_dur,
        stim_dur_delta |-> stim1_dur - stim2_dur,
        choice_key |-> choice_key,
        choice_time |-> choice_time,
        choice_rt |-> choice_rt_of(choice_time, response[1])]

Min3(a, b, c) ==
    IF a <= b /\ a <= c THEN a ELSE IF b <= c THEN b ELSE c

(* Variant of line 68 that counts one trial too few.                       *)
trial_count_short(first_periods, second_periods, response_periods) ==
    LET n == Min3(Len(first_periods), Len(second_periods), Len(response_periods))
    IN IF n > 0 THEN n - 1 ELSE 0

(* Line 68.                                                                *)
trial_count(first_periods, second_periods, response_periods) ==
    Min3(Len(first_periods), Len(second_periods), Len(response_periods))

(* parse_time_interval_log: reading the log raises when the file cannot be *)
(* read (log.readable is FALSE), the metadata raises on the file name;     *)
(* otherwise the list of trials is returned.                               *)
parse_time_interval_log(log) ==
    IF ~log.readable
    THEN [raised |-> TRUE, error |-> "cannot read the log", trials |-> <<>>]
    ELSE LET events == log.events
             metadata == extract_experiment_datetime(log.path)
             first_periods == extract_periods(events, "firstImg")
             second_periods == extract_periods(events, "secondImg")
             response_periods == extract_periods(events, "responseImg")
             key_events == key_events_of(events)
             n == trial_count(first_periods, second_periods, response_periods)
         IN IF metadata.raised
            THEN [raised |-> TRUE,
                  error |-> "Could not extract experiment datetime from filename: "
                                \o BaseName(log.path),
                  trials |-> <<>>]
            ELSE [raised |-> FALSE, error |-> "",
                  trials |-> [i \in 1..n |->
                      build_trial(metadata, first_periods[i], second_periods[i],
                                  response_periods[i], key_events)]]

----------------------------------------------------------------------------
(* Specification SpecScan: extract_periods run event by event over every   *)
(* event sequence of at most MaxLen events.  Whatever state the loop is in *)
(* when the events end, `periods` is what extract_periods returns.         *)

ScanMsgs ==
    {DrawMsg("firstImg", {"true"}),
     DrawMsg("firstImg", {"null"}),
     DrawMsg("firstImg", {"true", "null"}),
     DrawMsg("responseImg", {"true"}),
     NoMsg}

ScanEvents == {Event(t, "EXP", m) : t \in Times, m \in ScanMsgs}

ScanIdle ==
    /\ scanned = <<>>
    /\ stim_name = "firstImg"
    /\ on = None
    /\ periods = <<>>

ParseIdle ==
    /\ log_file = None
    /\ parsed = None

BatchIdle ==
    /\ input_dir = <<>>
    /\ csv_files = <<>>
    /\ csv_before = <<>>
    /\ overwrite = FALSE
    /\ dry_run = FALSE
    /\ pc = "idle"
    /\ log_paths = <<>>
    /\ done = 0
    /\ results = <<>>

ScanInit ==
    /\ scanned = <<>>
    /\ stim_name = "firstImg"
    /\ on = None
    /\ periods = <<>>
    /\ ParseIdle
    /\ BatchIdle

(* One iteration of the loop of extract_periods, on the next event.        *)
ScanEvent ==
    \E e \in ScanEvents :
        /\ Len(scanned) < MaxLen
        /\ scanned' = Append(scanned, e)
        /\ LET st == PeriodStep([on |-> on, periods |-> periods], e, stim_name)
           IN /\ on' = st.on
              /\ periods' = st.periods
        /\ UNCHANGED <<stim_name, parseVars, batchVars>>

ScanNext == ScanEvent

SpecScan == ScanInit /\ [][ScanNext]_vars

(* The loop and the function agree on every prefix.                        *)
ScanIsExtractPeriods == periods = extract_periods(scanned, stim_name)

(* What a claim reads off an event: which markers of stim_name it holds.   *)
MarkerKinds(e) == {v \in {"true", "null"} : <<stim_name, v>> \in e.msg.marks}
IsMarker(e) == MarkerKinds(e) # {}
Markers == SelectSeq(scanned, IsMarker)
Monotone(events) ==
    \A i \in 1..(Len(events) - 1) : events[i].t <= events[i + 1].t
CountOf(v) ==
    Cardinality({i \in 1..Len(scanned) : v \in MarkerKinds(scanned[i])})

(* C1, one event: a "true" seen while idle opens a period at its time and  *)
(* emits nothing; a "null" seen while open closes the period and emits     *)
(* (onset, time); a "true" seen while open, a "null" seen while idle and   *)
(* any other message change nothing.                                       *)
C1Step ==
    scanned' # scanned =>
        LET e == scanned'[Len(scanned')]
            isTrue == "true" \in MarkerKinds(e)
            isNull == "null" \in MarkerKinds(e)
        IN /\ (on = None /\ isTrue) =>
                  (on' = Some(e.t) /\ periods' = periods)
           /\ (on = None /\ ~isTrue) => (on' = on /\ periods' = periods)
           /\ (on # None /\ isNull) =>
                  (on' = None /\ periods' = Append(periods, <<on[1], e.t>>))
           /\ (on # None /\ ~isNull) => (on' = on /\ periods' = periods)

(* C1, the markers alternate true, null, true, ...: the k-th period is the *)
(* k-th pair, and a trailing "true" is open and not emitted.               *)
C1Alternating ==
    LET m == Markers
    IN (\A i \in 1..Len(m) :
            MarkerKinds(m[i]) = IF i % 2 = 1 THEN {"true"} ELSE {"null"})
       => /\ Len(periods) = Len(m) \div 2
          /\ \A k \in 1..Len(periods) :
                 periods[k] = <<m[2 * k - 1].t, m[2 * k].t>>
          /\ (on # None) <=> (Len(m) % 2 = 1)

(* C1, the markers are true, true, null: one period, from the first true.  *)
C1DoubleTrue ==
    LET m == Markers
    IN (/\ Len(m) = 3
        /\ MarkerKinds(m[1]) = {"true"}
        /\ MarkerKinds(m[2]) = {"true"}
        /\ MarkerKinds(m[3]) = {"null"})
       => periods = << <<m[1].t, m[3].t>> >>

(* C1: extract_periods emits exactly the intervals of the two-state        *)
(* (idle/open) scan, in order; N alternating true/null markers give N      *)
(* intervals, and true, true, null gives one interval from the first true  *)
(* to the null.                                                            *)
C1_TwoStateScan == [](C1Alternating /\ C1DoubleTrue) /\ [][C1Step]_vars

C1_Witness ==
    LET m == Markers
    IN /\ Len(m) = 3
       /\ MarkerKinds(m[1]) = {"true"}
       /\ MarkerKinds(m[2]) = {"true"}
       /\ MarkerKinds(m[3]) = {"null"}
       /\ m[1].t # m[2].t
       /\ periods = << <<m[1].t, m[3].t>> >>

(* C5 as the specification states it: over events with non-decreasing     *)
(* timestamps every emitted interval has onset < offset.                   *)
C5_OnsetStrictlyBeforeOffset ==
    Monotone(scanned) =>
        \A k \in 1..Len(periods) : periods[k][1] < periods[k][2]

(* C5, amended: over events with non-decreasing timestamps every emitted  *)
(* interval has onset <= offset; the two are equal when the "true" and the *)
(* "null" lines carry the same timestamp.                                  *)
C5_OnsetNotAfterOffset ==
    Monotone(scanned) =>
        \A k \in 1..Len(periods) : periods[k][1] <= periods[k][2]

C5_Witness ==
    /\ Monotone(scanned)
    /\ Len(periods) = 2
    /\ periods[1][1] = periods[1][2]
    /\ periods[2][1] < periods[2][2]

NoOverlap ==
    \A k \in 1..(Len(periods) - 1) : periods[k][2] <= periods[k + 1][1]
CountsBound ==
    /\ Len(periods) <= CountOf("null")
    /\ Len(periods) <= CountOf("true")

(* C10 as the specification states it: for every event sequence the        *)
(* emitted intervals never overlap, and there are no more of them than     *)
(* "null" markers or "true" markers.                                       *)
C10_NeverOverlap == NoOverlap /\ CountsBound

(* C10, amended: for every event sequence with non-decreasing timestamps   *)
(* consecutive intervals satisfy off_i <= on_{i+1}; for every event        *)
(* sequence there are no more intervals than "null" or "true" markers.     *)
C10_NoOverlapWhenMonotone == (Monotone(scanned) => NoOverlap) /\ CountsBound

C10_Witness ==
    /\ Monotone(scanned)
    /\ Len(periods) = 2
    /\ periods[1][2] = periods[2][1]
    /\ periods[1][1] < periods[1][2]

----------------------------------------------------------------------------
(* Specification SpecParse: parse_time_interval_log applied to one log.    *)
(* The log holds, trial after trial, the autoDraw toggles of up to         *)
(* MaxPeriods periods of each stimulus, then up to MaxKeys Keydown lines.  *)

GoodPath ==
    [dir |-> "", root |-> "P1_2021-07-16_09h56.52.759", tail |-> ".log",
     stamp |-> Some(<<"2021-07-16", "09", "56", "52", "759">>)]

StimPeriodChoices == {<<0, 0>>, <<0, 1>>}
ResponsePeriodChoices == Times \X Times
KeyLabels == {"1", "2", "x"}
KeyChoices == {Event(t, "DATA", KeyMsg(l)) : t \in Times, l \in KeyLabels}

Toggles(stim, ps, i) ==
    IF i > Len(ps) THEN <<>>
    ELSE <<Event(ps[i][1], "EXP", DrawMsg(stim, {"true"})),
           Event(ps[i][2], "EXP", DrawMsg(stim, {"null"}))>>

LogEvents(fs, ss, rs, ks) ==
    Flatten([i \in 1..MaxPeriods |->
                Toggles("firstImg", fs, i) \o Toggles("secondImg", ss, i)
                    \o Toggles("responseImg", rs, i)]) \o ks

ParseInit ==
    /\ \E fs \in SeqsUpTo(StimPeriodChoices, MaxPeriods),
          ss \in SeqsUpTo(StimPeriodChoices, MaxPeriods),
          rs \in SeqsUpTo(ResponsePeriodChoices, MaxPeriods),
          ks \in SeqsUpTo(KeyChoices, MaxKeys) :
            log_file = [path |-> GoodPath, readable |-> TRUE,
                        events |-> LogEvents(fs, ss, rs, ks)]
    /\ parsed = None
    /\ ScanIdle
    /\ BatchIdle

Parse ==
    /\ parsed = None
    /\ parsed' = Some(parse_time_interval_log(log_file))
    /\ UNCHANGED <<log_file, scanVars, batchVars>>

ParseNext == Parse

SpecParse == ParseInit /\ [][ParseNext]_vars

(* What the claims read off the parsed log.                                *)
Returned == parsed # None /\ ~parsed[1].raised
Trials == parsed[1].trials
FirstPeriods == extract_periods(log_file.events, "firstImg")
SecondPeriods == extract_periods(log_file.events, "secondImg")
ResponsePeriods == extract_periods(log_file.events, "responseImg")
KeyEvents == key_events_of(log_file.events)

InWindow(k, r) ==
    /\ KeyEvents[k][2] = "1" \/ KeyEvents[k][2] = "2"
    /\ r[1] <= KeyEvents[k][1]
    /\ KeyEvents[k][1] <= r[2] + 1

(* The key event a trial holds as its choice: the first one with the       *)
(* trial's choice_time and choice_key; 0 when the trial has no choice.     *)
ChosenEvent(trial) ==
    IF trial.choice_time = None THEN 0
    ELSE LET same == {k \in 1..Len(KeyEvents) :
                         KeyEvents[k] = <<trial.choice_time[1], trial.choice_key[1]>>}
         IN IF same = {} THEN 0 ELSE CHOOSE k \in same : \A j \in same : k <= j

(* C2: parse_time_interval_log returns, without error, as many trials as   *)
(* the shortest of the three interval sequences has intervals, and trial i *)
(* is built from the i-th interval of each (none when a sequence is empty).*)
C2_TrialsZipToShortest ==
    parsed # None =>
        /\ ~parsed[1].raised
        /\ Len(Trials) <= Len(FirstPeriods)
        /\ Len(Trials) <= Len(SecondPeriods)
        /\ Len(Trials) <= Len(ResponsePeriods)
        /\ Len(Trials) \in
               {Len(FirstPeriods), Len(SecondPeriods), Len(ResponsePeriods)}
        /\ \A i \in 1..Len(Trials) :
               /\ Trials[i].stim1_onset = FirstPeriods[i][1]
               /\ Trials[i].stim1_offset = FirstPeriods[i][2]
               /\ Trials[i].stim2_onset = SecondPeriods[i][1]
               /\ Trials[i].stim2_offset = SecondPeriods[i][2]
               /\ Trials[i].choice_rt # None =>
                      Trials[i].choice_time[1] - Trials[i].choice_rt[1]
                          = ResponsePeriods[i][1]

C2_Witness ==
    /\ Returned
    /\ Len(FirstPeriods) = 2
    /\ Len(SecondPeriods) = 2
    /\ Len(ResponsePeriods) = 1
    /\ Len(Trials) = 1
    /\ Trials[1].choice_rt = Some(1)

(* C3: the choice of a trial with response interval (resp_on, resp_off) is *)
(* the first key event labelled "1" or "2" with                            *)
(* resp_on <= t <= resp_off + 1.0, and there is no choice when no key      *)
(* event is such.                                                          *)
C3_FirstKeyInWindow ==
    Returned =>
        \A i \in 1..Len(Trials) :
            LET r == ResponsePeriods[i]
                hits == {k \in 1..Len(KeyEvents) : InWindow(k, r)}
            IN IF hits = {}
               THEN Trials[i].choice_key = None /\ Trials[i].choice_time = None
               ELSE \E k \in hits :
                        /\ \A j \in hits : k <= j
                        /\ Trials[i].choice_key = Some(KeyEvents[k][2])
                        /\ Trials[i].choice_time = Some(KeyEvents[k][1])

(* A choice made exactly at resp_off + 1.0, after a key with another       *)
(* label inside the window and a key before resp_on were passed over.      *)
C3_Witness ==
    /\ Returned
    /\ Len(Trials) = 1
    /\ Len(KeyEvents) = 2
    /\ KeyEvents[1][2] = "x"
    /\ ResponsePeriods[1][1] <= KeyEvents[1][1]
    /\ KeyEvents[1][1] <= ResponsePeriods[1][2]
    /\ Trials[1].choice_time = Some(ResponsePeriods[1][2] + 1)
    /\ Trials[1].choice_key = Some("2")

(* C4: in every trial choice_key, choice_time and choice_rt are all null,  *)
(* or all set with choice_key "1" or "2" and                               *)
(* choice_rt = choice_time - the trial's responseImg onset.                *)
C4_ChoiceFieldsTogether ==
    Returned =>
        \A i \in 1..Len(Trials) :
            LET t == Trials[i]
            IN \/ t.choice_key = None /\ t.choice_time = None /\ t.choice_rt = None
               \/ /\ t.choice_key \in {Some("1"), Some("2")}
                  /\ t.choice_time # None
                  /\ t.choice_rt = Some(t.choice_time[1] - ResponsePeriods[i][1])

C4_Witness ==
    /\ Returned
    /\ Len(Trials) = 2
    /\ Trials[1].choice_key = None
    /\ Trials[1].choice_time = None
    /\ Trials[1].choice_rt = None
    /\ Trials[2].choice_key = Some("2")
    /\ Trials[2].choice_time = Some(0)
    /\ Trials[2].choice_rt = Some(0)

WindowsDisjoint(r1, r2) == r1[2] + 1 < r2[1] \/ r2[2] + 1 < r1[1]

(* C9 as the specification states it: in a file with non-decreasing        *)
(* timestamps the windows [resp_on, resp_off + 1.0] of distinct trials do  *)
(* not overlap, and no key event is the choice of two trials.              *)
C9_WindowsNeverOverlap ==
    (Returned /\ Monotone(log_file.events)) =>
        \A i, j \in 1..Len(Trials) :
            i # j =>
                /\ WindowsDisjoint(ResponsePeriods[i], ResponsePeriods[j])
                /\ ChosenEvent(Trials[i]) # 0 =>
                       ChosenEvent(Trials[i]) # ChosenEvent(Trials[j])

(* C9, amended: in a file with non-decreasing timestamps the response      *)
(* periods of distinct trials do not overlap (off_i <= on_j for i < j),    *)
(* but their windows, one second longer, can; a key event is the choice of *)
(* two trials only if it lies in both windows, so trials with disjoint     *)
(* windows never share a key event.                                        *)
C9_SharedKeyOnlyInOverlap ==
    Returned =>
        \A i, j \in 1..Len(Trials) :
            i < j =>
                /\ Monotone(log_file.events) =>
                       ResponsePeriods[i][2] <= ResponsePeriods[j][1]
                /\ (/\ ChosenEvent(Trials[i]) # 0
                    /\ ChosenEvent(Trials[i]) = ChosenEvent(Trials[j]))
                   => /\ InWindow(ChosenEvent(Trials[i]), ResponsePeriods[i])
                      /\ InWindow(ChosenEvent(Trials[i]), ResponsePeriods[j])
                      /\ ~WindowsDisjoint(ResponsePeriods[i], ResponsePeriods[j])

C9_Witness ==
    /\ Returned
    /\ Monotone(log_file.events)
    /\ Len(Trials) = 2
    /\ ResponsePeriods[1][2] <= ResponsePeriods[2][1]
    /\ ChosenEvent(Trials[1]) # 0
    /\ ChosenEvent(Trials[1]) = ChosenEvent(Trials[2])

----------------------------------------------------------------------------
(* parse_psychopy.save_trials_to_csv and batch_parse_psychopy.py           *)

(* Variant of save_trials_to_csv without the check of lines 106-107.       *)
save_trials_unchecked(trials, csv_path, files) ==
    [raised |-> FALSE, error |-> "",
     files |-> [files EXCEPT ![csv_path] = Some(trials)]]

(* save_trials_to_csv: the outcome and the CSV files it leaves.            *)
save_trials_to_csv(trials, csv_path, files) ==
    IF trials = <<>>
    THEN [raised |-> TRUE, error |-> "No trials parsed.", files |-> files]
    ELSE [raised |-> FALSE, error |-> "",
          files |-> [files EXCEPT ![csv_path] = Some(trials)]]

(* Path.stem: the base name without its last suffix.                       *)
Stem(path) ==
    IF path.tail = ".log.gz" THEN path.root \o ".log" ELSE path.root

(* _target_csv_path: the CSV's file name in output_dir.                    *)
_target_csv_path(log_path) ==
    IF log_path.tail = ".log.gz"
    THEN log_path.root \o ".csv"
    ELSE Stem(log_path) \o ".csv"

(* The paths a run can find under input_dir, in the order sorted() gives   *)
(* them (Path compares part by part, upper case before lower case).        *)
BadPath ==
    [dir |-> "", root |-> "Notes", tail |-> ".log", stamp |-> None]
GzPath == [GoodPath EXCEPT !.tail = ".log.gz"]
SubPath == [GoodPath EXCEPT !.dir = "sub"]

PathOrder == <<BadPath, GoodPath, GzPath, SubPath>>

PathRank(path) == CHOOSE i \in 1..Len(PathOrder) : PathOrder[i] = path

(* sorted({...}) of line 53.                                               *)
RECURSIVE sorted(_)
sorted(paths) ==
    IF paths = {} THEN <<>>
    ELSE LET first == CHOOSE p \in paths :
                         \A q \in paths : PathRank(p) <= PathRank(q)
         IN <<first>> \o sorted(paths \ {first})

LogAt(dir, path) == CHOOSE f \in dir.files : f.path = path

(* Variant of the loop's branches that never takes the dry-run branch.     *)
branch_no_dry_run(csv_exists, overwrite_arg, dry_run_arg) ==
    IF csv_exists /\ ~overwrite_arg THEN "skipped" ELSE "parse"

(* Lines 59 and 70: which branch one iteration of the loop takes.          *)
branch(csv_exists, overwrite_arg, dry_run_arg) ==
    IF csv_exists /\ ~overwrite_arg THEN "skipped"
    ELSE IF dry_run_arg THEN "dry-run"
    ELSE "parse"

(* Lines 82-101: parse and save one log; the result and the CSV files.     *)
parse_and_save(log, csv_path, files) ==
    LET p == parse_time_interval_log(log)
        w == save_trials_to_csv(p.trials, csv_path, files)
    IN IF p.raised
       THEN [result |-> [log |-> log.path, csv |-> csv_path, status |-> "error",
                         error |-> p.error],
             files |-> files]
       ELSE IF w.raised
       THEN [result |-> [log |-> log.path, csv |-> csv_path, status |-> "error",
                         error |-> w.error],
             files |-> files]
       ELSE [result |-> [log |-> log.path, csv |-> csv_path, status |-> "ok",
                         trials |-> Len(p.trials)],
             files |-> w.files]

OneTrialEvents ==
    LogEvents(<<<<0, 1>>>>, <<<<1, 2>>>>, <<<<2, 2>>>>,
              <<Event(2, "DATA", KeyMsg("1"))>>)

LogContents ==
    {[readable |-> FALSE, events |-> <<>>],
     [readable |-> TRUE, events |-> <<>>],
     [readable |-> TRUE, events |-> OneTrialEvents]}

CsvNames == {_target_csv_path(PathOrder[i]) : i \in 1..Len(PathOrder)}

(* The rows of a CSV left by an earlier run.                               *)
OldTrials ==
    <<build_trial([experiment_date |-> "2020-01-01",
                   experiment_time |-> "00:00:00.000"],
                  <<0, 1>>, <<1, 2>>, <<2, 2>>, <<>>)>>

Dirs ==
    {[exists |-> FALSE, files |-> {}]} \cup
    {[exists |-> TRUE,
      files |-> {[path |-> p, readable |-> c[p].readable, events |-> c[p].events]
                    : p \in ps}]
        : ps \in SUBSET {PathOrder[i] : i \in 1..Len(PathOrder)},
          c \in [{PathOrder[i] : i \in 1..Len(PathOrder)} -> LogContents]}

BatchInit ==
    /\ input_dir \in Dirs
    /\ csv_files \in [CsvNames -> {None, Some(OldTrials)}]
    /\ csv_before = csv_files
    /\ overwrite \in BOOLEAN
    /\ dry_run \in BOOLEAN
    /\ pc = "call"
    /\ log_paths = <<>>
    /\ done = 0
    /\ results = <<>>
    /\ ScanIdle
    /\ ParseIdle

(* Lines 47-54.                                                            *)
Discover ==
    /\ pc = "call"
    /\ IF ~input_dir.exists
       THEN /\ pc' = "raised"
            /\ UNCHANGED log_paths
       ELSE /\ pc' = "loop"
            /\ log_paths' = sorted({f.path : f \in input_dir.files})
    /\ UNCHANGED <<input_dir, csv_files, csv_before, overwrite, dry_run, done,
                   results, scanVars, parseVars>>

(* Lines 56-101: one iteration of the loop over log_paths.                 *)
ProcessLog ==
    /\ pc = "loop"
    /\ done < Len(log_paths)
    /\ LET log_path == log_paths[done + 1]
           csv_path == _target_csv_path(log_path)
           b == branch(csv_files[csv_path] # None, overwrite, dry_run)
           ps == parse_and_save(LogAt(input_dir, log_path), csv_path, csv_files)
       IN IF b = "skipped"
          THEN /\ results' = Append(results,
                      [log |-> log_path, csv |-> csv_path, status |-> "skipped",
                       reason |-> "exists"])
               /\ UNCHANGED csv_files
          ELSE IF b = "dry-run"
          THEN /\ results' = Append(results,
                      [log |-> log_path, csv |-> csv_path, status |-> "dry-run"])
               /\ UNCHANGED csv_files
          ELSE /\ results' = Append(results, ps.result)
               /\ csv_files' = ps.files
    /\ done' = done + 1
    /\ UNCHANGED <<input_dir, csv_before, overwrite, dry_run, pc, log_paths,
                   scanVars, parseVars>>

(* Line 103.                                                               *)
Return ==
    /\ pc = "loop"
    /\ done = Len(log_paths)
    /\ pc' = "returned"
    /\ UNCHANGED <<input_dir, csv_files, csv_before, overwrite, dry_run,
                   log_paths, done, results, scanVars, parseVars>>

Next == Discover \/ ProcessLog \/ Return

Init == BatchInit

Spec == Init /\ [][Next]_vars

----------------------------------------------------------------------------
(* Claims about batch_parse_logs, under Spec.                              *)

Statuses == {results[i].status : i \in 1..Len(results)}
IterationDone == pc = "loop" /\ done' = done + 1
NewResult == results'[Len(results')]

(* C6, one iteration that reaches the parser with a readable, well-named   *)
(* log holding no events: the parser returns the empty list without error, *)
(* the result is "error" with "No trials parsed." and no CSV changes.      *)
C6Step ==
    IterationDone =>
        LET log == LogAt(input_dir, log_paths[done + 1])
        IN (/\ log.readable
            /\ log.path.stamp # None
            /\ log.events = <<>>
            /\ NewResult.status \notin {"skipped", "dry-run"})
           => /\ parse_time_interval_log(log) =
                     [raised |-> FALSE, error |-> "", trials |-> <<>>]
              /\ NewResult.status = "error"
              /\ NewResult.error = "No trials parsed."
              /\ csv_files' = csv_files

(* C6: zero trials is no error of parse_time_interval_log, but             *)
(* save_trials_to_csv raises "No trials parsed." on them before it opens   *)
(* the CSV, so the log's result is "error", never "ok", and no CSV is      *)
(* created or changed.                                                     *)
C6_EmptyTrialsAreAnErrorOnSave ==
    /\ [](\A i \in 1..Len(results) :
              results[i].status = "ok" => results[i].trials >= 1)
    /\ [][C6Step]_vars

C6_Witness ==
    /\ pc = "returned"
    /\ \E i \in 1..Len(results) :
           /\ results[i].status = "error"
           /\ results[i].error = "No trials parsed."
           /\ csv_files[results[i].csv] = None

(* C7: a log whose base name does not match the date/time pattern makes    *)
(* parse_time_interval_log raise, with no trial list; batch_parse_logs     *)
(* records "error" for it and goes on: the run ends with exactly one       *)
(* result per discovered log, in sorted path order.                        *)
C7_OneResultPerLog ==
    /\ Len(results) = done
    /\ \A i \in 1..Len(results) :
           /\ results[i].log = log_paths[i]
           /\ (/\ results[i].log.stamp = None
               /\ results[i].status \notin {"skipped", "dry-run"})
              => results[i].status = "error"
    /\ \A f \in input_dir.files :
           (f.path.stamp = None) =>
               /\ parse_time_interval_log(f).raised
               /\ parse_time_interval_log(f).trials = <<>>
    /\ pc = "returned" =>
           /\ Len(results) = Cardinality(input_dir.files)
           /\ {results[i].log : i \in 1..Len(results)}
                  = {f.path : f \in input_dir.files}
           /\ \A i, j \in 1..Len(results) :
                  i < j => PathRank(results[i].log) < PathRank(results[j].log)

C7_Witness ==
    /\ pc = "returned"
    /\ Len(results) = 3
    /\ results[1].log.stamp = None
    /\ LogAt(input_dir, results[1].log).readable
    /\ results[1].status = "error"
    /\ results[2].status = "error"
    /\ results[3].status = "ok"

(* C8, one step: a CSV changes only in an iteration whose result is "ok",  *)
(* and it is the CSV of that result.                                       *)
C8Step ==
    \A c \in CsvNames :
        csv_files'[c] # csv_files[c] =>
            /\ IterationDone
            /\ NewResult.status = "ok"
            /\ NewResult.csv = c

(* C8: only a log whose result is "ok" creates or rewrites a CSV; with     *)
(* dry_run no CSV is written, with overwrite false no CSV that existed     *)
(* before the run is modified, and a log whose CSV existed is "skipped"    *)
(* even under dry_run (the skip is checked first).                         *)
C8_OnlyOkWritesCsv ==
    /\ [](/\ dry_run => csv_files = csv_before
          /\ ~overwrite =>
                 \A c \in CsvNames :
                     csv_before[c] # None => csv_files[c] = csv_before[c]
          /\ \A i \in 1..Len(results) :
                 /\ (~overwrite /\ csv_before[results[i].csv] # None)
                        => results[i].status = "skipped"
                 /\ results[i].status = "dry-run" => dry_run)
    /\ [][C8Step]_vars

C8_Witness ==
    /\ pc = "returned"
    /\ ~overwrite
    /\ Statuses = {"skipped", "ok", "error"}
    /\ \E c \in CsvNames : csv_before[c] = None /\ csv_files[c] # None
    /\ \E c \in CsvNames : csv_before[c] # None /\ csv_files[c] = csv_before[c]

====
